---------------------------- MODULE Spec2Model ----------------------------
(***************************************************************************)
(* Model of the OpenGL polar-sphere benchmark, src/Benchmarks/benchmark.py *)
(* and of the API retry loops of src/Python_Toolbox.                       *)
(*                                                                         *)
(* The state machine follows main() -> OpenGLBenchmark.run_benchmark ->    *)
(* benchmark_pattern -> render_pattern, with the result store              *)
(* (BenchmarkResult) and the result file.                                  *)
(*                                                                         *)
(* Numbers.  A density is the numerator k of the dyadic fraction           *)
(* k / DensityDen, so that density * 10000 etc. are exact in binary        *)
(* floating point and int() is the truncating division below.  Wall-clock  *)
(* time is counted in ticks of one second; `now` is time.time() minus the  *)
(* start_time of the running render loop.  A float quotient is kept as a   *)
(* reduced fraction <<numerator, denominator>>.                            *)
(***************************************************************************)
EXTENDS Integers, Sequences, FiniteSets, TLC

(***************************************************************************)
(* Bounds of the model.                                                    *)
(***************************************************************************)
MaxDensities == 2        \* longest --densities list explored

\* The densities explored, as numerators over DensityDen: 1 gives an empty
\* field for every pattern, 4 and 8 give small non-empty fields.
DensityDen == 2^14
DensityValues == {1, 4, 8}

\* The --duration values explored, in ticks.
Durations == {0, 2}

\* The time one frame may take, in ticks.
FrameTicks == {1, 2}

(***************************************************************************)
(* Program constants.                                                      *)
(***************************************************************************)
FibPointsPerDensity == 10000
PrimeMaxPerDensity == 20000
MandelResolutionPerDensity == 100
MandelIterPerDensity == 50
MandelLayers == 3
LorenzStepsPerDensity == 5000
LorenzAttractors == 3
WaitEveryFrames == 10
WaitTicks == 1

Classes == {"FibonacciSphere", "PrimeSpiral", "MandelbrotSphere",
            "LorenzAttractor", "ParticleSystem"}

\* OpenGLBenchmark.__init__: the default sweep.
DefaultPatterns == <<"FibonacciSphere", "PrimeSpiral", "MandelbrotSphere",
                     "LorenzAttractor", "ParticleSystem">>

\* main(): --pattern replaces the list by one fresh instance.
PatternLists == {DefaultPatterns} \cup {<<c>> : c \in Classes}

\* main(): --densities, nargs='+'.  The lists explored hold distinct levels
\* in any order.
DensityLists ==
  {l \in UNION {[1..n -> DensityValues] : n \in 1..MaxDensities} :
     \A i, j \in 1..Len(l) : i # j => l[i] # l[j]}

\* PolarSpherePattern.name as set by the __init__ bound on each class.  The
\* body of class ParticleSystem defines __init__ twice; the second one
\* (Lorenz text) is the one bound.
PatternName(cls) ==
  CASE cls = "FibonacciSphere"  -> "Fibonacci Sphere"
    [] cls = "PrimeSpiral"      -> "Prime Spiral"
    [] cls = "MandelbrotSphere" -> "Mandelbrot Sphere"
    [] cls = "LorenzAttractor"  -> "Lorenz Attractor"
    [] cls = "ParticleSystem"   -> "Lorenz Attractor"

(***************************************************************************)
(* Arithmetic helpers.                                                     *)
(***************************************************************************)
\* int(density * c) for the density k / DensityDen, k >= 0.
IntScale(k, c) == (k * c) \div DensityDen

RECURSIVE GCD(_, _)
GCD(a, b) == IF b = 0 THEN a ELSE GCD(b, a % b)

\* The float n / d, d > 0, as a reduced fraction.
Rat(n, d) == IF n = 0 THEN <<0, 1>>
             ELSE LET g == GCD(n, d) IN <<n \div g, d \div g>>

RatLess(a, b) == a[1] * b[2] < b[1] * a[2]

\* int(math.sqrt(n))
Isqrt(n) == CHOOSE r \in 0..n : r * r <= n /\ (r + 1) * (r + 1) > n

(***************************************************************************)
(* The generators, as far as the driver observes them: the length of       *)
(* pattern.points after pattern.generate(density).                         *)
(***************************************************************************)
\* FibonacciSphere.generate: one append per i in range(n_points).
FibonacciGenerate(k) == IntScale(k, FibPointsPerDensity)

\* PrimeSpiral.generate, the inline trial division of one candidate n.
TrialDivisionPrime_Exclusive(n) == \A i \in 2..(Isqrt(n) - 1) : n % i # 0

TrialDivisionPrime(n) == \A i \in 2..Isqrt(n) : n % i # 0

\* PrimeSpiral.generate: primes collects the accepted n of range(2, max_num)
\* in increasing order; one point is appended per collected prime.
PrimeList(max_num) ==
  SelectSeq([n \in 1..(max_num - 2) |-> n + 1], TrialDivisionPrime)

PrimeGenerate(k) == Len(PrimeList(IntScale(k, PrimeMaxPerDensity)))

\* MandelbrotSphere.mandelbrot_iterations for c = (cre + cim i) / q, in exact
\* arithmetic: z is kept as (a + b i) / w.
RECURSIVE MandelLoop(_, _, _, _, _, _, _, _)
MandelLoop(n, a, b, w, cre, cim, q, max_iter) ==
  IF n >= max_iter THEN max_iter
  ELSE IF a * a + b * b > 4 * w * w THEN n
  ELSE MandelLoop(n + 1,
                  (a * a - b * b) * q + cre * w * w,
                  2 * a * b * q + cim * w * w,
                  w * w * q, cre, cim, q, max_iter)

mandelbrot_iterations(cre, cim, q, max_iter) ==
  MandelLoop(0, 0, 0, 1, cre, cim, q, max_iter)

\* MandelbrotSphere.generate: c of the cell (layer, i, j), as <<cre, cim, q>>
\* for c = (cre + cim i) / q.  x = (i / resolution - 0.5) * 4 and
\* c = complex(x + layer * 0.1, y + layer * 0.05), both over the denominator
\* 20 * resolution.
CellC(cell, resolution) ==
  LET layer == cell[1]
      i == cell[2]
      j == cell[3]
  IN  <<40 * (2 * i - resolution) + 2 * layer * resolution,
        40 * (2 * j - resolution) + layer * resolution,
        20 * resolution>>

\* MandelbrotSphere.generate: the iterations computed for a cell.
CellIterations(cell, resolution, max_iter) ==
  LET c == CellC(cell, resolution)
  IN  mandelbrot_iterations(c[1], c[2], c[3], max_iter)

\* MandelbrotSphere.generate: the cells (layer, i, j) that emit a point.
MandelCells_Inclusive(resolution, max_iter) ==
  {cell \in (0..(MandelLayers - 1)) \X (0..(resolution - 1)) \X (0..(resolution - 1)) :
     CellIterations(cell, resolution, max_iter) <= max_iter}

MandelCells(resolution, max_iter) ==
  {cell \in (0..(MandelLayers - 1)) \X (0..(resolution - 1)) \X (0..(resolution - 1)) :
     CellIterations(cell, resolution, max_iter) < max_iter}

MandelbrotGenerate(k) ==
  Cardinality(MandelCells(IntScale(k, MandelResolutionPerDensity),
                          IntScale(k, MandelIterPerDensity)))

\* LorenzAttractor.generate: one append per step of each attractor (the
\* magnitude of the noisy position is positive on every step explored).
LorenzGenerate(k) == LorenzAttractors * IntScale(k, LorenzStepsPerDensity)

\* The generate bound on class ParticleSystem is the second definition in
\* the class body: it resets points and colors, runs the three attractor
\* set-up iterations and appends nothing.
ParticleGenerate(k) == 0

\* pattern.generate(density); pattern.get_point_count()
GeneratedPoints(cls, k) ==
  CASE cls = "FibonacciSphere"  -> FibonacciGenerate(k)
    [] cls = "PrimeSpiral"      -> PrimeGenerate(k)
    [] cls = "MandelbrotSphere" -> MandelbrotGenerate(k)
    [] cls = "LorenzAttractor"  -> LorenzGenerate(k)
    [] cls = "ParticleSystem"   -> ParticleGenerate(k)

(***************************************************************************)
(* BenchmarkResult.  pattern_results is a dict in insertion order: a       *)
(* sequence of [key, results] entries with distinct keys.                  *)
(***************************************************************************)
HasKey(store, name) == \E i \in 1..Len(store) : store[i].key = name

KeyIndex(store, name) == CHOOSE i \in 1..Len(store) : store[i].key = name

\* Variant of add_result: the record is inserted at the head of the list.
add_result_Prepend(store, pattern_name, density, points, fps, render_time) ==
  LET s1 == IF HasKey(store, pattern_name) THEN store
            ELSE Append(store, [key |-> pattern_name, results |-> <<>>])
      i == KeyIndex(s1, pattern_name)
      rec == [density |-> density,
              points |-> points,
              fps |-> fps,
              render_time_ms |-> Rat(render_time[1] * 1000, render_time[2])]
  IN [s1 EXCEPT ![i].results = <<rec>> \o @]

\* Variant of add_result: the list of the pattern is replaced by the new
\* record (assignment instead of append).
add_result_Overwrite(store, pattern_name, density, points, fps, render_time) ==
  LET s1 == IF HasKey(store, pattern_name) THEN store
            ELSE Append(store, [key |-> pattern_name, results |-> <<>>])
      i == KeyIndex(s1, pattern_name)
      rec == [density |-> density,
              points |-> points,
              fps |-> fps,
              render_time_ms |-> Rat(render_time[1] * 1000, render_time[2])]
  IN [s1 EXCEPT ![i].results = <<rec>>]

\* BenchmarkResult.add_result
add_result(store, pattern_name, density, points, fps, render_time) ==
  LET s1 == IF HasKey(store, pattern_name) THEN store
            ELSE Append(store, [key |-> pattern_name, results |-> <<>>])
      i == KeyIndex(s1, pattern_name)
      rec == [density |-> density,
              points |-> points,
              fps |-> fps,
              render_time_ms |-> Rat(render_time[1] * 1000, render_time[2])]
  IN [s1 EXCEPT ![i].results = Append(@, rec)]

\* max(...) over a non-empty sequence of ints / of fractions, as Python
\* computes it: left to right, keeping the first largest element.
RECURSIVE MaxIntFrom(_, _, _)
MaxIntFrom(seq, i, best) ==
  IF i > Len(seq) THEN best
  ELSE MaxIntFrom(seq, i + 1, IF seq[i] > best THEN seq[i] ELSE best)

MaxInt(seq) == MaxIntFrom(seq, 2, seq[1])

RECURSIVE MaxRatFrom(_, _, _)
MaxRatFrom(seq, i, best) ==
  IF i > Len(seq) THEN best
  ELSE MaxRatFrom(seq, i + 1, IF RatLess(best, seq[i]) THEN seq[i] ELSE best)

MaxRat(seq) == MaxRatFrom(seq, 2, seq[1])

\* The format "{max_fps:.1f}": the number of tenths printed, rounding the
\* exact value to the nearest tenth, ties to even.
FormatFps(r) ==
  LET q == (10 * r[1]) \div r[2]
      rem == (10 * r[1]) % r[2]
  IN IF 2 * rem < r[2] THEN q
     ELSE IF 2 * rem > r[2] THEN q + 1
     ELSE IF q % 2 = 0 THEN q ELSE q + 1

\* Variant of the summary line: the point count is taken from the first
\* record that has the largest fps (the paired value, not its own maximum).
SummaryLine_Paired(pattern, results) ==
  LET best == MaxRat([i \in 1..Len(results) |-> results[i].fps])
      at == CHOOSE i \in 1..Len(results) :
              /\ results[i].fps = best
              /\ \A j \in 1..(i - 1) : results[j].fps # best
  IN [pattern |-> pattern,
      max_fps |-> FormatFps(best),
      max_points |-> results[at].points]

\* One line of BenchmarkResult.get_summary for a non-empty result list.
SummaryLine(pattern, results) ==
  [pattern |-> pattern,
   max_fps |-> FormatFps(MaxRat([i \in 1..Len(results) |-> results[i].fps])),
   max_points |-> MaxInt([i \in 1..Len(results) |-> results[i].points])]

\* BenchmarkResult.get_summary
RECURSIVE SummaryFrom(_, _, _)
SummaryFrom(store, i, acc) ==
  IF i > Len(store) THEN acc
  ELSE SummaryFrom(store, i + 1,
                   IF store[i].results # <<>>
                   THEN Append(acc, SummaryLine(store[i].key, store[i].results))
                   ELSE acc)

get_summary(store) == SummaryFrom(store, 1, <<>>)

NoFile == [written |-> FALSE]

\* BenchmarkResult.save_to_file: what json.dump writes (the timestamp is
\* fixed at construction and left out).
save_to_file(info, store) ==
  [written |-> TRUE, system_info |-> info, results |-> store]

(***************************************************************************)
(* Floating-point values of the generators, in fixed point: a real v is    *)
(* the integer nearest v * FixOne.  Angles are in radians.                 *)
(***************************************************************************)
FixOne == 10^4
FxPi == 31416
FxHalfPi == FxPi \div 2
FxTwoPi == 2 * FxPi

FxMul(a, b) == (a * b) \div FixOne

\* The angle in [-pi/2, pi/2] with the same sine as x.
FxFold[x \in Int] ==
  LET r == ((x + FxPi) % FxTwoPi) - FxPi
  IN  IF r > FxHalfPi THEN FxPi - r
      ELSE IF r < -FxHalfPi THEN -FxPi - r
      ELSE r

\* The odd Taylor polynomial of degree 9 at r.
FxSinSeries[r \in Int] ==
  LET r2 == FxMul(r, r)
      t3 == FxMul(r, r2) \div 6
      t5 == FxMul(t3, r2) \div 20
      t7 == FxMul(t5, r2) \div 42
      t9 == FxMul(t7, r2) \div 72
  IN  r - t3 + t5 - t7 + t9

\* math.sin
FxSin[x \in Int] == FxSinSeries[FxFold[x]]

\* math.cos
FxCos[x \in Int] == FxSin[x + FxHalfPi]

\* The angle in lo..hi whose cosine is v, by bisection: the cosine decreases
\* on [0, pi].
FxAcosSearch[lo \in Int, hi \in Int, v \in Int] ==
  IF hi - lo <= 1 THEN lo
  ELSE LET mid == (lo + hi) \div 2
       IN  IF FxCos[mid] > v THEN FxAcosSearch[mid, hi, v]
           ELSE FxAcosSearch[lo, mid, v]

\* math.acos; -1 stands for the ValueError outside [-1, 1].
FxAcos[v \in Int] ==
  IF v > FixOne \/ v < -FixOne THEN -1
  ELSE IF v = FixOne THEN 0
  ELSE IF v = -FixOne THEN FxPi
  ELSE FxAcosSearch[0, FxPi, v]

\* x*x + y*y + z*z of a position, in units of 1 / FixOne^2.
NormSquared[at \in Int \X Int \X Int] ==
  at[1] * at[1] + at[2] * at[2] + at[3] * at[3]

\* [sin(phi)cos(theta), sin(phi)sin(theta), cos(phi)]
SpherePoint[theta \in Int, phi \in Int] ==
  <<FxMul(FxSin[phi], FxCos[theta]), FxMul(FxSin[phi], FxSin[theta]),
    FxCos[phi]>>

(***************************************************************************)
(* The pattern objects.  An object is the record self of its lists; every  *)
(* list element carries id, the call and loop iteration that appended it.  *)
(* generate returns the object and the exception it raised, if any.        *)
(***************************************************************************)
ParticlesPerDensity == 5000
RenderThreshold == 50000
FxGolden == 16180
MassValues == {5, 19}

\* a / b for integers a >= 0, b > 0, in fixed point.
FxDiv(a, b) == (a \div b) * FixOne + ((a % b) * FixOne) \div b

\* PolarSpherePattern.__init__: points and colors are empty lists.  Only the
\* first __init__ in the body of ParticleSystem binds velocities and masses,
\* and the second one replaces it.
NewObject(cls) ==
  [points |-> <<>>, colors |-> <<>>, velocities |-> <<>>, masses |-> <<>>,
   has_physics |-> FALSE]

Returned(self) == [self |-> self, raised |-> "none"]

\* FibonacciSphere.generate
FibonacciSphere_generate_Extends(self, k, call) ==
  LET n_points == IntScale(k, FibPointsPerDensity)
      theta(i) == FxDiv(FxTwoPi * i, FxGolden)
      phi(i) == FxAcos[FixOne - FxDiv(2 * i, n_points)]
      at(i) == SpherePoint[theta(i), phi(i)]
      new_points == [n \in 1..n_points |->
                       [id |-> <<call, n - 1>>, at |-> at(n - 1),
                        n2 |-> NormSquared[at(n - 1)]]]
      new_colors == [n \in 1..n_points |-> [id |-> <<call, n - 1>>]]
  IN  IF \E i \in 0..(n_points - 1) : phi(i) = -1
      THEN [self |-> self, raised |-> "ValueError"]
      ELSE Returned([self EXCEPT !.points = self.points \o new_points,
                                 !.colors = self.colors \o new_colors])

FibonacciSphere_generate(self, k, call) ==
  LET n_points == IntScale(k, FibPointsPerDensity)
      theta(i) == FxDiv(FxTwoPi * i, FxGolden)
      phi(i) == FxAcos[FixOne - FxDiv(2 * i, n_points)]
      at(i) == SpherePoint[theta(i), phi(i)]
      new_points == [n \in 1..n_points |->
                       [id |-> <<call, n - 1>>, at |-> at(n - 1),
                        n2 |-> NormSquared[at(n - 1)]]]
      new_colors == [n \in 1..n_points |-> [id |-> <<call, n - 1>>]]
  IN  IF \E i \in 0..(n_points - 1) : phi(i) = -1
      THEN [self |-> [self EXCEPT !.points = <<>>, !.colors = <<>>],
            raised |-> "ValueError"]
      ELSE Returned([self EXCEPT !.points = new_points,
                                 !.colors = new_colors])

\* PrimeSpiral.generate: the point of the prime of rank i.  offset_x and
\* offset_y are added to the Cartesian x and y of the sphere point.
PrimePoint[prime \in Int, i \in Int, n_primes \in Int, max_num \in Int] ==
  LET t == (prime * 50 * FxPi) \div max_num
      phi == FxAcos[FixOne - FxDiv(2 * i, n_primes)]
      offset_x == FxSin[prime * (FixOne \div 1000)] \div 10
      offset_y == FxCos[(prime * 7 * FixOne) \div 10000] \div 10
      q == SpherePoint[t, phi]
  IN  <<q[1] + offset_x, q[2] + offset_y, q[3]>>

\* PrimeSpiral.generate
PrimeSpiral_generate(self, k, call) ==
  LET max_num == IntScale(k, PrimeMaxPerDensity)
      primes == PrimeList(max_num)
      at(i) == PrimePoint[primes[i + 1], i, Len(primes), max_num]
      new_points == [n \in 1..Len(primes) |->
                       [id |-> <<call, n - 1, primes[n]>>, at |-> at(n - 1),
                        n2 |-> NormSquared[at(n - 1)]]]
      new_colors == [n \in 1..Len(primes) |-> [id |-> <<call, n - 1, primes[n]>>]]
  IN  Returned([self EXCEPT !.points = new_points, !.colors = new_colors])

\* The cells of MandelbrotSphere.generate in the order its three nested
\* loops visit them: layer, then i, then j.
CellOrder(resolution) ==
  [n \in 1..(MandelLayers * resolution * resolution) |->
     <<(n - 1) \div (resolution * resolution),
       ((n - 1) % (resolution * resolution)) \div resolution,
       (n - 1) % resolution>>]

\* MandelbrotSphere.generate
MandelbrotSphere_generate(self, k, call) ==
  LET resolution == IntScale(k, MandelResolutionPerDensity)
      max_iter == IntScale(k, MandelIterPerDensity)
      emitting == MandelCells(resolution, max_iter)
      emitted == SelectSeq(CellOrder(resolution),
                           LAMBDA cell : cell \in emitting)
      new_points == [n \in 1..Len(emitted) |->
                       [id |-> <<call>> \o emitted[n],
                        iterations |-> CellIterations(emitted[n], resolution,
                                                      max_iter)]]
      new_colors == [n \in 1..Len(emitted) |-> [id |-> <<call>> \o emitted[n]]]
  IN  Returned([self EXCEPT !.points = new_points, !.colors = new_colors])

\* The (attractor, i) iterations of LorenzAttractor.generate in loop order.
StepOrder(steps) ==
  [n \in 1..(LorenzAttractors * steps) |->
     <<(n - 1) \div steps, (n - 1) % steps>>]

\* LorenzAttractor.generate.  zero is the set of iterations whose noisy
\* position has magnitude 0.0: the floating-point trajectory is not
\* computed, zero ranges over what it may contain.  Without the guard
\* `if magnitude > 0` the division raises on the first such iteration.
LorenzAttractor_generate_NoGuard(self, k, call, zero) ==
  LET steps == IntScale(k, LorenzStepsPerDensity)
      order == StepOrder(steps)
      stop == IF \E n \in 1..Len(order) : order[n] \in zero
              THEN (CHOOSE n \in 1..Len(order) :
                      /\ order[n] \in zero
                      /\ \A m \in 1..(n - 1) : order[m] \notin zero) - 1
              ELSE Len(order)
      new_points == [n \in 1..stop |->
                       [id |-> <<call>> \o order[n], n2 |-> FixOne * FixOne]]
      new_colors == [n \in 1..stop |-> [id |-> <<call>> \o order[n]]]
  IN  [self |-> [self EXCEPT !.points = new_points, !.colors = new_colors],
       raised |-> IF stop < Len(order) THEN "ZeroDivisionError" ELSE "none"]

LorenzAttractor_generate(self, k, call, zero) ==
  LET steps == IntScale(k, LorenzStepsPerDensity)
      kept == SelectSeq(StepOrder(steps), LAMBDA step : step \notin zero)
      new_points == [n \in 1..Len(kept) |->
                       [id |-> <<call>> \o kept[n], n2 |-> FixOne * FixOne]]
      new_colors == [n \in 1..Len(kept) |-> [id |-> <<call>> \o kept[n]]]
  IN  Returned([self EXCEPT !.points = new_points, !.colors = new_colors])

\* The first generate in the body of ParticleSystem, which the second one
\* replaces: int(density * 5000) particles on the unit sphere, each with a velocity,
\* a mass and a colour.  mass[i] is the value random.uniform(0.5, 2.0)
\* returned for particle i, in tenths.
ParticleSystem_generate_first(k, call, mass) ==
  LET n_particles == IntScale(k, ParticlesPerDensity)
  IN  [points |-> [n \in 1..n_particles |->
                     [id |-> <<call, n - 1>>, n2 |-> FixOne * FixOne,
                      writes |-> 0]],
       colors |-> [n \in 1..n_particles |-> [id |-> <<call, n - 1>>]],
       velocities |-> [n \in 1..n_particles |->
                         [id |-> <<call, n - 1>>, writes |-> 0,
                          pulled_by |-> {}]],
       masses |-> [n \in 1..n_particles |->
                     [id |-> <<call, n - 1>>, mass |-> mass[n]]],
       has_physics |-> TRUE]

\* ParticleSystem.generate, the definition bound on the class: it resets
\* points and colors, sets up three attractors and appends nothing.
ParticleSystem_generate(self, k, call) ==
  Returned([self EXCEPT !.points = <<>>, !.colors = <<>>])

\* pattern.generate(density) on an object of class cls.
generate(cls, self, k, call, zero) ==
  CASE cls = "FibonacciSphere"  -> FibonacciSphere_generate(self, k, call)
    [] cls = "PrimeSpiral"      -> PrimeSpiral_generate(self, k, call)
    [] cls = "MandelbrotSphere" -> MandelbrotSphere_generate(self, k, call)
    [] cls = "LorenzAttractor"  -> LorenzAttractor_generate(self, k, call, zero)
    [] cls = "ParticleSystem"   -> ParticleSystem_generate(self, k, call)

\* ParticleSystem.update_physics.  Every particle is pulled by every other
\* one; its velocity and then its position are written; the position is
\* normalised if its magnitude is positive.  zero is the set of particles
\* whose updated position has magnitude 0.0.  colors and masses are read
\* only.  Without velocities and masses a non-empty field raises.
update_physics_Merges(self, zero) ==
  LET n == Len(self.points)
      keep == SelectSeq([i \in 1..n |-> i], LAMBDA i : <<i - 1>> \notin zero)
  IN  IF n > 0 /\ ~self.has_physics
      THEN [self |-> self, raised |-> "AttributeError"]
      ELSE Returned(
        [self EXCEPT
           !.velocities = [m \in 1..Len(keep) |->
              [self.velocities[keep[m]] EXCEPT
                 !.writes = @ + 1,
                 !.pulled_by = {self.points[j].id : j \in (1..n) \ {keep[m]}}]],
           !.points = [m \in 1..Len(keep) |->
              [self.points[keep[m]] EXCEPT !.writes = @ + 1,
                                           !.n2 = FixOne * FixOne]],
           !.masses = [m \in 1..Len(keep) |-> self.masses[keep[m]]]])

update_physics(self, zero) ==
  LET n == Len(self.points)
  IN  IF n > 0 /\ ~self.has_physics
      THEN [self |-> self, raised |-> "AttributeError"]
      ELSE Returned(
        [self EXCEPT
           !.velocities = [i \in 1..n |->
              [self.velocities[i] EXCEPT
                 !.writes = @ + 1,
                 !.pulled_by = {self.points[j].id : j \in (1..n) \ {i}}]],
           !.points = [i \in 1..n |->
              [self.points[i] EXCEPT
                 !.writes = @ + 1,
                 !.n2 = IF <<i - 1>> \in zero THEN 0 ELSE FixOne * FixOne]]])

\* OpenGLBenchmark.render_pattern: the branch taken for point_count points.
RenderPath_Inclusive(n) ==
  IF n >= RenderThreshold THEN "batched" ELSE "immediate"

RenderPath(n) ==
  IF n > RenderThreshold THEN "batched" ELSE "immediate"

\* One call made by a frame: its name and its count argument.
GLCall(name, arg) == [op |-> name, arg |-> arg]

\* OpenGLBenchmark.render_overlay_effects: range(3) wireframe spheres.
OverlaySpheres == 3

render_overlay_effects ==
  <<GLCall("glPushMatrix", 0)>> \o
  [i \in 1..OverlaySpheres |-> GLCall("gluSphere", i - 1)] \o
  <<GLCall("glPopMatrix", 0)>>

\* The point sizes both paths of render_pattern loop over.
PointSizes == <<1, 2, 3>>

\* The batched path: one glDrawArrays of n points for each point size.
BatchedPasses(n) ==
  [j \in 1..(2 * Len(PointSizes)) |->
     IF j % 2 = 1 THEN GLCall("glPointSize", PointSizes[(j + 1) \div 2])
     ELSE GLCall("glDrawArrays", n)]

\* The immediate path: for each point size glBegin, n glVertex3f calls
\* (folded into one entry carrying n) and glEnd.
ImmediatePasses(n) ==
  [j \in 1..(4 * Len(PointSizes)) |->
     CASE j % 4 = 1 -> GLCall("glPointSize", PointSizes[(j + 3) \div 4])
       [] j % 4 = 2 -> GLCall("glBegin", 0)
       [] j % 4 = 3 -> GLCall("glVertex3f", n)
       [] OTHER     -> GLCall("glEnd", 0)]

\* What render_pattern has issued when update_physics raises.
render_pattern_raised(n) ==
  <<GLCall("glClear", 0), GLCall("update_physics", n)>>

\* OpenGLBenchmark.render_pattern on a pattern of class cls holding n points:
\* the calls of one frame, in order.
render_pattern_BatchedNoOverlay(cls, n) ==
  <<GLCall("glClear", 0)>> \o
  (IF cls = "ParticleSystem" THEN <<GLCall("update_physics", n)>> ELSE <<>>) \o
  (IF RenderPath(n) = "batched" THEN BatchedPasses(n)
   ELSE ImmediatePasses(n) \o render_overlay_effects) \o
  <<GLCall("flip", 0)>>

render_pattern(cls, n) ==
  <<GLCall("glClear", 0)>> \o
  (IF cls = "ParticleSystem" THEN <<GLCall("update_physics", n)>> ELSE <<>>) \o
  (IF RenderPath(n) = "batched" THEN BatchedPasses(n) ELSE ImmediatePasses(n)) \o
  render_overlay_effects \o
  <<GLCall("flip", 0)>>

(***************************************************************************)
(* State.                                                                  *)
(***************************************************************************)
VARIABLES
  pc,                \* position in main / run_benchmark / benchmark_pattern
  patterns,          \* benchmark.patterns: the class of each instance
  densities,         \* args.densities
  duration,          \* args.duration
  p,                 \* index in patterns of the `for pattern` loop
  d,                 \* index in densities of the `for density` loop
  npoints,           \* len(pattern.points) of each instance
  point_count,       \* local of benchmark_pattern
  frames,            \* local of benchmark_pattern
  now,               \* time.time() - start_time
  total_render_time, \* local of benchmark_pattern
  rotation,          \* self.rotation
  pattern_results,   \* self.result.pattern_results
  system_info,       \* keys of self.result.system_info
  file,              \* the result file
  summary,           \* the lines printed from get_summary()
  exc,               \* where an exception was raised, "none" if nowhere
  bp_ret,            \* value returned by the last benchmark_pattern call
  ret,               \* value run_benchmark returns
  exit_status,       \* status passed to sys.exit, -1 while running
  quitSeen,          \* history: a pygame.QUIT event was observed
  genLog,            \* history: (p, d) of every pattern.generate call
  renderLog,         \* history: (p, d) of every render_pattern call
  addLog,            \* history: (p, d) of every add_result call
  skipLog,           \* history: (p, d) of every density skipped for 0 points
  saveCalls,         \* history: number of save_to_file calls
  instance,          \* class of the pattern object under study, "none" if none
  self_points,       \* its self.points
  self_colors,       \* its self.colors
  self_velocities,   \* its self.velocities
  self_masses,       \* its self.masses
  has_physics,       \* __init__ bound self.velocities and self.masses
  zero_magnitude,    \* iterations whose vector has magnitude exactly 0.0
  last_density,      \* density of the last generate call, -1 before any
  generate_calls,    \* number of generate calls on the object
  read_count,        \* get_point_count() read after the last generate
  skipped,           \* the density was skipped for having no points
  frame_count,       \* frames counted by the frame loop
  physics_steps,     \* number of update_physics calls
  render_path,       \* branch render_pattern took on the last frame
  field_size,        \* len(pattern.points) of a field given by size only
  raised,            \* exception raised by the last call, "none" if none
  frame_ops,         \* the calls issued by the last frame, in order
  \* One call of an analyzer's API method (Python_Toolbox).
  api_method,        \* the method called, "none" if none
  api_pc,            \* position in the method
  attempt,           \* the loop variable of `for attempt in range(...)`
  api_log,           \* the HTTP posts and the sleeps made, in order
  api_ret            \* what the call came to, "pending" before

vars == <<pc, patterns, densities, duration, p, d, npoints, point_count,
          frames, now, total_render_time, rotation, pattern_results,
          system_info, file, summary, exc, bp_ret, ret, exit_status,
          quitSeen, genLog, renderLog, addLog, skipLog, saveCalls,
          instance, self_points, self_colors, self_velocities, self_masses,
          has_physics, zero_magnitude, last_density, generate_calls,
          read_count, skipped, frame_count, physics_steps, render_path,
          field_size, raised, frame_ops,
          api_method, api_pc, attempt, api_log, api_ret>>

args == <<patterns, densities, duration>>
locals == <<point_count, frames, now, total_render_time>>
history == <<quitSeen, genLog, renderLog, addLog, skipLog, saveCalls>>
field == <<self_points, self_colors, self_velocities, self_masses,
           has_physics>>
study == <<instance, field, zero_magnitude, last_density, generate_calls,
           read_count, skipped, frame_count, physics_steps, render_path,
           field_size, raised, frame_ops>>

api == <<api_method, api_pc, attempt, api_log, api_ret>>

\* No API method is called: the state of the analyzer variables throughout
\* the benchmark.
NoApi ==
  /\ api_method = "none"
  /\ api_pc = "none"
  /\ attempt = 0
  /\ api_log = <<>>
  /\ api_ret = "none"

\* No pattern object is studied on its own: the state of the object-level
\* variables throughout a run of the driver.
NoStudy ==
  /\ instance = "none"
  /\ self_points = <<>>
  /\ self_colors = <<>>
  /\ self_velocities = <<>>
  /\ self_masses = <<>>
  /\ has_physics = FALSE
  /\ zero_magnitude = {}
  /\ last_density = -1
  /\ generate_calls = 0
  /\ read_count = 0
  /\ skipped = FALSE
  /\ frame_count = 0
  /\ physics_steps = 0
  /\ render_path = "none"
  /\ field_size = 0
  /\ raised = "none"
  /\ frame_ops = <<>>

\* main() after argument parsing and construction of OpenGLBenchmark, at the
\* call of run_benchmark.
Init ==
  /\ patterns \in PatternLists
  /\ densities \in DensityLists
  /\ duration \in Durations
  /\ pc = "run_benchmark"
  /\ p = 0
  /\ d = 0
  /\ npoints = [i \in 1..Len(patterns) |-> 0]
  /\ point_count = 0
  /\ frames = 0
  /\ now = 0
  /\ total_render_time = 0
  /\ rotation = 0
  /\ pattern_results = <<>>
  /\ system_info = {}
  /\ file = NoFile
  /\ summary = <<>>
  /\ exc = "none"
  /\ bp_ret = "none"
  /\ ret = "none"
  /\ exit_status = -1
  /\ quitSeen = FALSE
  /\ genLog = <<>>
  /\ renderLog = <<>>
  /\ addLog = <<>>
  /\ skipLog = <<>>
  /\ saveCalls = 0
  /\ NoStudy
  /\ NoApi

(***************************************************************************)
(* run_benchmark: set-up.                                                  *)
(***************************************************************************)
\* init_pygame() and init_opengl() succeed; the GPU strings are stored.
InitPygame ==
  /\ pc = "run_benchmark"
  /\ system_info' = {"gpu_vendor", "gpu_renderer", "opengl_version"}
  /\ p' = 1
  /\ pc' = "for_pattern"
  /\ UNCHANGED <<api, study, args, d, npoints, locals, rotation, pattern_results, file,
                 summary, exc, bp_ret, ret, exit_status, history>>

\* Variant of InitPygameFail: the failure is noted but the sweep starts.
InitPygameFail_Continues ==
  /\ pc = "run_benchmark"
  /\ exc' = "setup"
  /\ p' = 1
  /\ pc' = "for_pattern"
  /\ UNCHANGED <<api, study, args, d, npoints, locals, rotation, pattern_results,
                 system_info, file, summary, bp_ret, ret, exit_status,
                 history>>

\* init_pygame() raises (no display, no GL context): control leaves the try
\* block for the except clause.
InitPygameFail ==
  /\ pc = "run_benchmark"
  /\ exc' = "setup"
  /\ pc' = "except"
  /\ UNCHANGED <<api, study, args, p, d, npoints, locals, rotation, pattern_results,
                 system_info, file, summary, bp_ret, ret, exit_status,
                 history>>

(***************************************************************************)
(* run_benchmark: `for pattern in self.patterns`.                          *)
(***************************************************************************)
\* The loop takes the next pattern and calls benchmark_pattern.
EnterPattern ==
  /\ pc = "for_pattern"
  /\ p <= Len(patterns)
  /\ d' = 1
  /\ pc' = "for_density"
  /\ UNCHANGED <<api, study, args, p, npoints, locals, rotation, pattern_results,
                 system_info, file, summary, exc, bp_ret, ret, exit_status,
                 history>>

\* The loop is exhausted.
SweepDone ==
  /\ pc = "for_pattern"
  /\ p > Len(patterns)
  /\ pc' = "save"
  /\ UNCHANGED <<api, study, args, p, d, npoints, locals, rotation, pattern_results,
                 system_info, file, summary, exc, bp_ret, ret, exit_status,
                 history>>

(***************************************************************************)
(* benchmark_pattern.                                                      *)
(***************************************************************************)
\* Variant of PatternDone: the results are saved after every pattern.
PatternDone_Saves ==
  /\ pc = "for_density"
  /\ d > Len(densities)
  /\ bp_ret' = "True"
  /\ p' = p + 1
  /\ pc' = "for_pattern"
  /\ file' = [written |-> TRUE, system_info |-> system_info,
              results |-> pattern_results]
  /\ saveCalls' = saveCalls + 1
  /\ UNCHANGED <<api, study, args, d, npoints, locals, rotation, pattern_results,
                 system_info, summary, exc, ret, exit_status, quitSeen,
                 genLog, renderLog, addLog, skipLog>>

\* `for density in densities` is exhausted: return True; run_benchmark goes
\* on with the next pattern.
PatternDone ==
  /\ pc = "for_density"
  /\ d > Len(densities)
  /\ bp_ret' = "True"
  /\ p' = p + 1
  /\ pc' = "for_pattern"
  /\ UNCHANGED <<api, study, args, d, npoints, locals, rotation, pattern_results,
                 system_info, file, summary, exc, ret, exit_status, history>>

\* Variant of Generate without the `point_count == 0` test: the render loop
\* is entered for an empty field too.
Generate_NoSkip ==
  /\ pc = "for_density"
  /\ d <= Len(densities)
  /\ LET n == GeneratedPoints(patterns[p], densities[d]) IN
       /\ npoints' = [npoints EXCEPT ![p] = n]
       /\ point_count' = n
  /\ genLog' = Append(genLog, <<p, d>>)
  /\ frames' = 0
  /\ now' = 0
  /\ total_render_time' = 0
  /\ pc' = "while"
  /\ UNCHANGED <<api, study, args, p, d, rotation, pattern_results, system_info, file,
                 summary, exc, bp_ret, ret, exit_status, quitSeen, renderLog,
                 addLog, skipLog, saveCalls>>

\* Variant of Generate: an empty generation is tried once more before the
\* density is skipped.
Generate_RetriesEmpty ==
  /\ pc = "for_density"
  /\ d <= Len(densities)
  /\ LET n == GeneratedPoints(patterns[p], densities[d])
         tried == \E i \in 1..Len(genLog) : genLog[i] = <<p, d>>
     IN
       /\ npoints' = [npoints EXCEPT ![p] = n]
       /\ point_count' = n
       /\ genLog' = Append(genLog, <<p, d>>)
       /\ IF n = 0
          THEN /\ skipLog' = IF tried THEN Append(skipLog, <<p, d>>)
                             ELSE skipLog
               /\ d' = IF tried THEN d + 1 ELSE d
               /\ pc' = "for_density"
               /\ UNCHANGED <<frames, now, total_render_time>>
          ELSE /\ frames' = 0
               /\ now' = 0
               /\ total_render_time' = 0
               /\ pc' = "while"
               /\ UNCHANGED <<skipLog, d>>
  /\ UNCHANGED <<api, study, args, p, rotation, pattern_results, system_info, file,
                 summary, exc, bp_ret, ret, exit_status, quitSeen, renderLog,
                 addLog, saveCalls>>

\* pattern.generate(density), get_point_count(), the `point_count == 0`
\* test, and the initialisation of the render loop.
Generate ==
  /\ pc = "for_density"
  /\ d <= Len(densities)
  /\ LET n == GeneratedPoints(patterns[p], densities[d]) IN
       /\ npoints' = [npoints EXCEPT ![p] = n]
       /\ point_count' = n
       /\ genLog' = Append(genLog, <<p, d>>)
       /\ IF n = 0
          THEN /\ skipLog' = Append(skipLog, <<p, d>>)
               /\ d' = d + 1
               /\ pc' = "for_density"
               /\ UNCHANGED <<frames, now, total_render_time>>
          ELSE /\ frames' = 0
               /\ now' = 0
               /\ total_render_time' = 0
               /\ pc' = "while"
               /\ UNCHANGED <<skipLog, d>>
  /\ UNCHANGED <<api, study, args, p, rotation, pattern_results, system_info, file,
                 summary, exc, bp_ret, ret, exit_status, quitSeen, renderLog,
                 addLog, saveCalls>>

\* pattern.generate(density) raises (for instance MemoryError); the field is
\* left empty or as far as it was built.
GenerateRaise ==
  /\ pc = "for_density"
  /\ d <= Len(densities)
  /\ \E n \in {0, GeneratedPoints(patterns[p], densities[d])} :
       npoints' = [npoints EXCEPT ![p] = n]
  /\ genLog' = Append(genLog, <<p, d>>)
  /\ exc' = "generate"
  /\ pc' = "except"
  /\ UNCHANGED <<api, study, args, p, d, locals, rotation, pattern_results, system_info,
                 file, summary, bp_ret, ret, exit_status, quitSeen, renderLog,
                 addLog, skipLog, saveCalls>>

\* Variant of PollQuit: run_benchmark does not break; the quit ends the
\* current pattern only.
PollQuit_OnlyEndsPattern ==
  /\ pc = "while"
  /\ now < duration
  /\ quitSeen' = TRUE
  /\ bp_ret' = "False"
  /\ p' = p + 1
  /\ pc' = "for_pattern"
  /\ UNCHANGED <<api, study, args, d, npoints, locals, rotation, pattern_results,
                 system_info, file, summary, exc, ret, exit_status, genLog,
                 renderLog, addLog, skipLog, saveCalls>>

\* Variant of PollQuit: the quit leaves run_benchmark at once, without the
\* statements after the loop.
PollQuit_LeavesRun ==
  /\ pc = "while"
  /\ now < duration
  /\ quitSeen' = TRUE
  /\ bp_ret' = "False"
  /\ pc' = "finally"
  /\ UNCHANGED <<api, study, args, p, d, npoints, locals, rotation, pattern_results,
                 system_info, file, summary, exc, ret, exit_status, genLog,
                 renderLog, addLog, skipLog, saveCalls>>

\* Variant of PollQuit: the frames rendered so far are recorded before the
\* return.
PollQuit_RecordsPartial ==
  /\ pc = "while"
  /\ now < duration
  /\ quitSeen' = TRUE
  /\ bp_ret' = "False"
  /\ pattern_results' =
       add_result(pattern_results, PatternName(patterns[p]), densities[d],
                  point_count,
                  IF now > 0 THEN Rat(frames, now) ELSE <<0, 1>>,
                  IF frames > 0 THEN Rat(total_render_time, frames)
                  ELSE <<0, 1>>)
  /\ addLog' = Append(addLog, <<p, d>>)
  /\ pc' = "save"
  /\ UNCHANGED <<api, study, args, p, d, npoints, locals, rotation,
                 system_info, file, summary, exc, ret, exit_status, genLog,
                 renderLog, skipLog, saveCalls>>

\* `while time.time() - start_time < duration_per_test`, pygame.event.get()
\* delivers a QUIT event: return False, and run_benchmark breaks out of its
\* loop.
PollQuit ==
  /\ pc = "while"
  /\ now < duration
  /\ quitSeen' = TRUE
  /\ bp_ret' = "False"
  /\ pc' = "save"
  /\ UNCHANGED <<api, study, args, p, d, npoints, locals, rotation, pattern_results,
                 system_info, file, summary, exc, ret, exit_status, genLog,
                 renderLog, addLog, skipLog, saveCalls>>

\* The loop condition holds and the polled events hold no QUIT.
PollNoQuit ==
  /\ pc = "while"
  /\ now < duration
  /\ pc' = "render"
  /\ UNCHANGED <<api, study, args, p, d, npoints, locals, rotation, pattern_results,
                 system_info, file, summary, exc, bp_ret, ret, exit_status,
                 history>>

\* Variant of Render: a QUIT event is also looked for while the frame is
\* drawn, and the frame is then abandoned uncounted.
Render_Cancellable ==
  /\ pc = "render"
  /\ renderLog' = Append(renderLog, <<p, d>>)
  /\ \/ /\ \E dt \in FrameTicks :
             /\ total_render_time' = total_render_time + dt
             /\ now' = now + dt
                       + (IF (frames + 1) % WaitEveryFrames = 0 THEN WaitTicks
                          ELSE 0)
        /\ frames' = frames + 1
        /\ rotation' = rotation + 1
        /\ pc' = "while"
        /\ UNCHANGED <<quitSeen, bp_ret>>
     \/ /\ quitSeen' = TRUE
        /\ bp_ret' = "False"
        /\ pc' = "save"
        /\ UNCHANGED <<frames, now, total_render_time, rotation>>
  /\ UNCHANGED <<api, study, args, p, d, npoints, point_count, pattern_results,
                 system_info, file, summary, exc, ret, exit_status,
                 genLog, addLog, skipLog, saveCalls>>

\* render_pattern(pattern) returns after dt ticks; the frame is counted, the
\* rotation advanced, and every tenth frame pygame.time.wait(1) is called.
Render ==
  /\ pc = "render"
  /\ \E dt \in FrameTicks :
       /\ total_render_time' = total_render_time + dt
       /\ now' = now + dt
                 + (IF (frames + 1) % WaitEveryFrames = 0 THEN WaitTicks ELSE 0)
  /\ frames' = frames + 1
  /\ rotation' = rotation + 1
  /\ renderLog' = Append(renderLog, <<p, d>>)
  /\ pc' = "while"
  /\ UNCHANGED <<api, study, args, p, d, npoints, point_count, pattern_results,
                 system_info, file, summary, exc, bp_ret, ret, exit_status,
                 quitSeen, genLog, addLog, skipLog, saveCalls>>

\* render_pattern(pattern) raises (a GL error).
RenderRaise ==
  /\ pc = "render"
  /\ renderLog' = Append(renderLog, <<p, d>>)
  /\ exc' = "render"
  /\ pc' = "except"
  /\ UNCHANGED <<api, study, args, p, d, npoints, locals, rotation, pattern_results,
                 system_info, file, summary, bp_ret, ret, exit_status,
                 quitSeen, genLog, addLog, skipLog, saveCalls>>

\* Variant of Record: fps is taken over the requested duration instead of
\* the time the loop took.
Record_FixedWindow ==
  /\ pc = "while"
  /\ ~(now < duration)
  /\ LET fps == IF duration > 0 THEN Rat(frames, duration) ELSE <<0, 1>>
         avg_render_time == IF frames > 0 THEN Rat(total_render_time, frames)
                            ELSE <<0, 1>>
     IN pattern_results' = add_result(pattern_results, PatternName(patterns[p]),
                                      densities[d], point_count, fps,
                                      avg_render_time)
  /\ addLog' = Append(addLog, <<p, d>>)
  /\ d' = d + 1
  /\ pc' = "for_density"
  /\ UNCHANGED <<api, study, args, p, npoints, locals, rotation, system_info, file,
                 summary, exc, bp_ret, ret, exit_status, quitSeen, genLog,
                 renderLog, skipLog, saveCalls>>

\* Variant of Record: the two divisions are made without their guards, and
\* a division by zero leaves for the except clause.
Record_Unguarded ==
  /\ pc = "while"
  /\ ~(now < duration)
  /\ IF now = 0 \/ frames = 0
     THEN /\ exc' = "record"
          /\ pc' = "except"
          /\ UNCHANGED <<pattern_results, addLog, d>>
     ELSE /\ pattern_results' =
               add_result(pattern_results, PatternName(patterns[p]),
                          densities[d], point_count, Rat(frames, now),
                          Rat(total_render_time, frames))
          /\ addLog' = Append(addLog, <<p, d>>)
          /\ d' = d + 1
          /\ pc' = "for_density"
          /\ UNCHANGED exc
  /\ UNCHANGED <<api, study, args, p, npoints, locals, rotation, system_info, file,
                 summary, bp_ret, ret, exit_status, quitSeen, genLog,
                 renderLog, skipLog, saveCalls>>

\* The loop condition fails: elapsed, fps and avg_render_time are computed
\* and the record is appended.
Record ==
  /\ pc = "while"
  /\ ~(now < duration)
  /\ LET elapsed == now
         fps == IF elapsed > 0 THEN Rat(frames, elapsed) ELSE <<0, 1>>
         avg_render_time == IF frames > 0 THEN Rat(total_render_time, frames)
                            ELSE <<0, 1>>
     IN pattern_results' = add_result(pattern_results, PatternName(patterns[p]),
                                      densities[d], point_count, fps,
                                      avg_render_time)
  /\ addLog' = Append(addLog, <<p, d>>)
  /\ d' = d + 1
  /\ pc' = "for_density"
  /\ UNCHANGED <<api, study, args, p, npoints, locals, rotation, system_info, file,
                 summary, exc, bp_ret, ret, exit_status, quitSeen, genLog,
                 renderLog, skipLog, saveCalls>>

(***************************************************************************)
(* run_benchmark: after the loop.                                          *)
(***************************************************************************)
\* self.result.save_to_file(filename)
SaveResults ==
  /\ pc = "save"
  /\ file' = save_to_file(system_info, pattern_results)
  /\ saveCalls' = saveCalls + 1
  /\ pc' = "summary"
  /\ UNCHANGED <<api, study, args, p, d, npoints, locals, rotation, pattern_results,
                 system_info, summary, exc, bp_ret, ret, exit_status,
                 quitSeen, genLog, renderLog, addLog, skipLog>>

\* for line in self.result.get_summary(): print(line)
PrintSummary ==
  /\ pc = "summary"
  /\ summary' = get_summary(pattern_results)
  /\ pc' = "finally"
  /\ UNCHANGED <<api, study, args, p, d, npoints, locals, rotation, pattern_results,
                 system_info, file, exc, bp_ret, ret, exit_status, history>>

\* Variant of HandleException: the error is printed but no value returned
\* from the except clause.
HandleException_Swallows ==
  /\ pc = "except"
  /\ pc' = "finally"
  /\ UNCHANGED <<api, study, args, p, d, npoints, locals, rotation, pattern_results,
                 system_info, file, summary, exc, bp_ret, ret, exit_status,
                 history>>

\* except Exception as e: print(...); return False
HandleException ==
  /\ pc = "except"
  /\ ret' = "False"
  /\ pc' = "finally"
  /\ UNCHANGED <<api, study, args, p, d, npoints, locals, rotation, pattern_results,
                 system_info, file, summary, exc, bp_ret, exit_status,
                 history>>

\* finally: pygame.quit(); then the pending return, or `return True`.
Finally ==
  /\ pc = "finally"
  /\ ret' = IF ret = "none" THEN "True" ELSE ret
  /\ pc' = "returned"
  /\ UNCHANGED <<api, study, args, p, d, npoints, locals, rotation, pattern_results,
                 system_info, file, summary, exc, bp_ret, exit_status,
                 history>>

\* main(): sys.exit(0 if success else 1)
Exit ==
  /\ pc = "returned"
  /\ exit_status' = IF ret = "True" THEN 0 ELSE 1
  /\ pc' = "exited"
  /\ UNCHANGED <<api, study, args, p, d, npoints, locals, rotation, pattern_results,
                 system_info, file, summary, exc, bp_ret, ret, history>>

Next ==
  \/ InitPygame
  \/ InitPygameFail
  \/ EnterPattern
  \/ SweepDone
  \/ PatternDone
  \/ Generate
  \/ GenerateRaise
  \/ PollQuit
  \/ PollNoQuit
  \/ Render
  \/ RenderRaise
  \/ Record
  \/ SaveResults
  \/ PrintSummary
  \/ HandleException
  \/ Finally
  \/ Exit

Spec == Init /\ [][Next]_vars

\* The program is one thread that takes its next step whenever it has one:
\* a call that was made returns or raises, and the clock has advanced when
\* a frame returns (FrameTicks).
LiveSpec == Init /\ [][Next]_vars /\ WF_vars(Next)

TypeOK ==
  /\ pc \in {"run_benchmark", "for_pattern", "for_density", "while", "render",
             "save", "summary", "except", "finally", "returned", "exited"}
  /\ patterns \in PatternLists
  /\ densities \in DensityLists
  /\ duration \in Durations
  /\ p \in 0..(Len(patterns) + 1)
  /\ d \in 0..(Len(densities) + 1)
  /\ frames \in Nat /\ now \in Nat /\ total_render_time \in Nat
  /\ rotation \in Nat
  /\ exc \in {"none", "setup", "generate", "render"}
  /\ bp_ret \in {"none", "True", "False"}
  /\ ret \in {"none", "True", "False"}
  /\ exit_status \in {-1, 0, 1}
  /\ quitSeen \in BOOLEAN
  /\ saveCalls \in Nat

(***************************************************************************)
(* One pattern object on its own: generate calls as benchmark_pattern      *)
(* makes them, and frames as its loop renders them.                        *)
(***************************************************************************)
MaxGenerateCalls == 2
MaxFrames == 2
MaxSeeded == 2

driver == <<pc, args, p, d, npoints, locals, rotation, pattern_results,
            system_info, file, summary, exc, bp_ret, ret, exit_status,
            history>>

\* The driver does not run while one object is studied.
NoDriver ==
  /\ pc = "none"
  /\ patterns = <<>>
  /\ densities = <<>>
  /\ duration = 0
  /\ p = 0
  /\ d = 0
  /\ npoints = <<>>
  /\ point_count = 0
  /\ frames = 0
  /\ now = 0
  /\ total_render_time = 0
  /\ rotation = 0
  /\ pattern_results = <<>>
  /\ system_info = {}
  /\ file = NoFile
  /\ summary = <<>>
  /\ exc = "none"
  /\ bp_ret = "none"
  /\ ret = "none"
  /\ exit_status = -1
  /\ quitSeen = FALSE
  /\ genLog = <<>>
  /\ renderLog = <<>>
  /\ addLog = <<>>
  /\ skipLog = <<>>
  /\ saveCalls = 0

\* The densities passed to generate, as numerators over DensityDen.
StudyDensities(cls) ==
  CASE cls = "FibonacciSphere"  -> {0, 2, 4, 8}
    [] cls = "PrimeSpiral"      -> {0, 2, 4, 82}
    [] cls = "MandelbrotSphere" -> {0, 164, 328, 768}
    [] cls = "LorenzAttractor"  -> {0, 4, 8}
    [] cls = "ParticleSystem"   -> {0, 4, 8}

\* What zero_magnitude may be: nothing, or one iteration of the Lorenz loops,
\* or one particle.
ZeroChoices(cls) ==
  CASE cls = "LorenzAttractor" ->
         {{}} \cup {{<<a, i>>} : a \in 0..(LorenzAttractors - 1), i \in 0..1}
    [] cls = "ParticleSystem" -> {{}} \cup {{<<i>>} : i \in 0..(MaxSeeded - 1)}
    [] OTHER -> {{}}

\* The particle fields the first generate of ParticleSystem builds, of 1 to
\* MaxSeeded particles.
SeedDensities == {4 * n : n \in 1..MaxSeeded}

SeededFields ==
  UNION {{ParticleSystem_generate_first(k, 0, mass) :
            mass \in [1..IntScale(k, ParticlesPerDensity) -> MassValues]} :
         k \in SeedDensities}

\* The object self, as a record.
Self ==
  [points |-> self_points, colors |-> self_colors,
   velocities |-> self_velocities, masses |-> self_masses,
   has_physics |-> has_physics]

\* self' = obj
SelfBecomes(obj) ==
  /\ self_points' = obj.points
  /\ self_colors' = obj.colors
  /\ self_velocities' = obj.velocities
  /\ self_masses' = obj.masses
  /\ has_physics' = obj.has_physics

\* A pattern object right after construction; for ParticleSystem also one
\* holding a field of particles.
StudyInit ==
  /\ NoDriver
  /\ NoApi
  /\ instance \in Classes
  /\ \E obj \in {NewObject(instance)} \cup
                (IF instance = "ParticleSystem" THEN SeededFields ELSE {}) :
       /\ self_points = obj.points
       /\ self_colors = obj.colors
       /\ self_velocities = obj.velocities
       /\ self_masses = obj.masses
       /\ has_physics = obj.has_physics
  /\ zero_magnitude \in ZeroChoices(instance)
  /\ last_density = -1
  /\ generate_calls = 0
  /\ read_count = 0
  /\ skipped = FALSE
  /\ frame_count = 0
  /\ physics_steps = 0
  /\ render_path = "none"
  /\ field_size = 0
  /\ raised = "none"
  /\ frame_ops = <<>>

\* benchmark_pattern up to its frame loop: pattern.generate(density), then
\* point_count = pattern.get_point_count(), then the test point_count == 0.
StudyGenerate ==
  /\ instance \in Classes
  /\ raised = "none"
  /\ generate_calls < MaxGenerateCalls
  /\ \E k \in StudyDensities(instance) :
       LET r == generate(instance, Self, k, generate_calls + 1, zero_magnitude)
       IN  /\ SelfBecomes(r.self)
           /\ raised' = r.raised
           /\ last_density' = k
           /\ read_count' = IF r.raised = "none" THEN Len(r.self.points)
                            ELSE read_count
           /\ skipped' = (r.raised = "none" /\ Len(r.self.points) = 0)
  /\ generate_calls' = generate_calls + 1
  /\ UNCHANGED <<api, driver, instance, zero_magnitude, frame_count, physics_steps,
                 render_path, field_size, frame_ops>>

\* One iteration of the frame loop, which is entered for a field that has
\* points: render_pattern, which runs update_physics first if the pattern is
\* a ParticleSystem and then draws len(pattern.points) points on one of two
\* paths; then frames += 1.
StudyFrame_StepsAll ==
  /\ instance \in Classes
  /\ raised = "none"
  /\ Len(self_points) > 0
  /\ frame_count < MaxFrames
  /\ LET r == update_physics(Self, zero_magnitude)
     IN  /\ SelfBecomes(r.self)
         /\ raised' = r.raised
         /\ physics_steps' = physics_steps + 1
         /\ IF r.raised = "none"
            THEN /\ render_path' = RenderPath(Len(r.self.points))
                 /\ frame_ops' = render_pattern(instance,
                                                Len(r.self.points))
                 /\ frame_count' = frame_count + 1
            ELSE /\ frame_ops' = render_pattern_raised(Len(self_points))
                 /\ UNCHANGED <<render_path, frame_count>>
  /\ UNCHANGED <<api, driver, instance, zero_magnitude, last_density,
                 generate_calls, read_count, skipped, field_size>>

StudyFrame ==
  /\ instance \in Classes
  /\ raised = "none"
  /\ Len(self_points) > 0
  /\ frame_count < MaxFrames
  /\ LET r == IF instance = "ParticleSystem"
              THEN update_physics(Self, zero_magnitude)
              ELSE Returned(Self)
     IN  /\ SelfBecomes(r.self)
         /\ raised' = r.raised
         /\ physics_steps' = IF instance = "ParticleSystem"
                             THEN physics_steps + 1 ELSE physics_steps
         /\ IF r.raised = "none"
            THEN /\ render_path' = RenderPath(Len(r.self.points))
                 /\ frame_ops' = render_pattern(instance,
                                                Len(r.self.points))
                 /\ frame_count' = frame_count + 1
            ELSE /\ frame_ops' = render_pattern_raised(Len(self_points))
                 /\ UNCHANGED <<render_path, frame_count>>
  /\ UNCHANGED <<api, driver, instance, zero_magnitude, last_density,
                 generate_calls, read_count, skipped, field_size>>

StudyNext == StudyGenerate \/ StudyFrame

StudySpec == StudyInit /\ [][StudyNext]_vars

(***************************************************************************)
(* render_pattern on fields near the size where its path changes.  Such a  *)
(* field is given by its class and its size only.                          *)
(***************************************************************************)
SizeSpread == 30
FieldSizes == (RenderThreshold - SizeSpread)..(RenderThreshold + SizeSpread)

RenderInit ==
  /\ NoDriver
  /\ NoApi
  /\ instance \in Classes
  /\ self_points = <<>>
  /\ self_colors = <<>>
  /\ self_velocities = <<>>
  /\ self_masses = <<>>
  /\ has_physics = FALSE
  /\ zero_magnitude = {}
  /\ last_density = -1
  /\ generate_calls = 0
  /\ read_count = 0
  /\ skipped = FALSE
  /\ frame_count = 0
  /\ physics_steps = 0
  /\ render_path = "none"
  /\ field_size \in FieldSizes
  /\ raised = "none"
  /\ frame_ops = <<>>

\* One iteration of the frame loop on a field of field_size points.
RenderFrame ==
  /\ frame_count < MaxFrames
  /\ physics_steps' = IF instance = "ParticleSystem"
                      THEN physics_steps + 1 ELSE physics_steps
  /\ render_path' = RenderPath(field_size)
  /\ frame_ops' = render_pattern(instance, field_size)
  /\ frame_count' = frame_count + 1
  /\ UNCHANGED <<api, driver, instance, field, zero_magnitude, last_density,
                 generate_calls, read_count, skipped, field_size, raised>>

RenderNext == RenderFrame

RenderSpec == RenderInit /\ [][RenderNext]_vars

(***************************************************************************)
(* The retry loops of the analyzers, Python_Toolbox: one call of           *)
(* AnalyzerBase.call_llm_api or of ScreenshotAnalyzer._call_vision_api.    *)
(* What an HTTP attempt comes to is an input: the content, or the          *)
(* exception raised by requests.post, raise_for_status, response.json or   *)
(* the extraction of choices[0].message.content.  Sleeps are in seconds.   *)
(***************************************************************************)
\* AnalyzerBase.__init__: the retry settings.
max_retries == 3
retry_delay == 1

ApiMethods == {"call_llm_api", "_call_vision_api"}

\* "content": the try body reaches `return content.strip()`.  "Exception"
\* is any exception that is neither a RequestException nor a KeyError nor
\* an IndexError (a TypeError on a response that is not an object, say).
Outcomes == {"content", "Timeout", "RequestException", "KeyError",
             "IndexError", "Exception"}

\* The except clauses of call_llm_api: what follows the exception.
call_llm_api_except_RetriesParse(outcome) ==
  CASE outcome \in {"Timeout", "RequestException", "KeyError", "IndexError"}
         -> "retry"
    [] OTHER -> "propagate"

call_llm_api_except(outcome) ==
  CASE outcome \in {"Timeout", "RequestException"} -> "retry"
    [] outcome \in {"KeyError", "IndexError"} -> "return None"
    [] OTHER -> "propagate"

\* The except clause of _call_vision_api: `except Exception`.
call_vision_api_except(outcome) == "retry"

except_clause(method, outcome) ==
  IF method = "call_llm_api" THEN call_llm_api_except(outcome)
  ELSE call_vision_api_except(outcome)

Post(k, outcome) == [ev |-> "post", attempt |-> k, outcome |-> outcome]
Sleep(secs) == [ev |-> "sleep", secs |-> secs]

\* The method has been called and is at the first iteration of its loop.
RetryInit ==
  /\ NoDriver
  /\ NoStudy
  /\ api_method \in ApiMethods
  /\ api_pc = "try"
  /\ attempt = 0
  /\ api_log = <<>>
  /\ api_ret = "pending"

\* The try statement of one iteration: the post, and either the return of
\* the content or the except clause the exception is caught by.
ApiPost ==
  /\ api_pc = "try"
  /\ \E outcome \in Outcomes :
       /\ api_log' = Append(api_log, Post(attempt + 1, outcome))
       /\ IF outcome = "content"
          THEN api_ret' = "content" /\ api_pc' = "done"
          ELSE LET next == except_clause(api_method, outcome)
               IN  CASE next = "retry" ->
                          api_pc' = "backoff" /\ UNCHANGED api_ret
                     [] next = "return None" ->
                          api_ret' = "None" /\ api_pc' = "done"
                     [] OTHER ->
                          api_ret' = "raised" /\ api_pc' = "done"
  /\ UNCHANGED <<driver, study, api_method, attempt>>

\* `if attempt < self.max_retries - 1: time.sleep(...)`, and the step of the
\* for loop to its next iteration or past its end.
ApiBackoff_SleepsAlways ==
  /\ api_pc = "backoff"
  /\ api_log' = Append(api_log, Sleep(retry_delay * (attempt + 1)))
  /\ attempt' = attempt + 1
  /\ api_pc' = IF attempt + 1 < max_retries THEN "try" ELSE "after_loop"
  /\ UNCHANGED <<driver, study, api_method, api_ret>>

ApiBackoff ==
  /\ api_pc = "backoff"
  /\ api_log' = IF attempt < max_retries - 1
                THEN Append(api_log, Sleep(retry_delay * (attempt + 1)))
                ELSE api_log
  /\ attempt' = attempt + 1
  /\ api_pc' = IF attempt + 1 < max_retries THEN "try" ELSE "after_loop"
  /\ UNCHANGED <<driver, study, api_method, api_ret>>

\* After the loop: the error is logged and None is returned.
ApiGiveUp ==
  /\ api_pc = "after_loop"
  /\ api_ret' = "None"
  /\ api_pc' = "done"
  /\ UNCHANGED <<driver, study, api_method, attempt, api_log>>

RetryNext == ApiPost \/ ApiBackoff \/ ApiGiveUp

\* The call is one thread: a post returns or raises (timeout=30), a sleep
\* ends.
RetrySpec == RetryInit /\ [][RetryNext]_vars /\ WF_vars(RetryNext)

(***************************************************************************)
(* Properties of the benchmark driver and the result store.                *)
(***************************************************************************)
InSeq(x, seq) == \E i \in 1..Len(seq) : seq[i] = x

\* The control positions after the `for pattern` loop of run_benchmark.
AfterSave == {"summary", "finally", "returned", "exited"}

\* Number of records in a store.
TotalRecords(store) ==
  Cardinality({ij \in (1..Len(store)) \X (1..(Len(densities) * Len(patterns))) :
                 ij[2] <= Len(store[ij[1]].results)})

\* C1: when a quit event is observed in the render loop, benchmark_pattern
\* returns False, and from then on there is no generate call, no render call
\* and no add_result for any remaining density or pattern.
C1_QuitAbortsSweep ==
  [][/\ (quitSeen' /\ ~quitSeen) => bp_ret' = "False"
     /\ quitSeen => /\ genLog' = genLog
                    /\ renderLog' = renderLog
                    /\ addLog' = addLog
                    /\ pattern_results' = pattern_results]_vars

\* A quit ended a run that still had densities or patterns to go.
W_C1 ==
  /\ quitSeen
  /\ pc = "exited"
  /\ bp_ret = "False"
  /\ (p < Len(patterns) \/ d < Len(densities))

\* C2: a generation of 0 points appends no record (every stored record has
\* at least 1 point), renders no frame, raises nothing, and the driver goes
\* on with the next density of the same pattern.
C2_ZeroPointsSkipped ==
  /\ [](\A i \in 1..Len(pattern_results) :
          \A j \in 1..Len(pattern_results[i].results) :
            pattern_results[i].results[j].points >= 1)
  /\ [](\A i \in 1..Len(skipLog) :
          ~InSeq(skipLog[i], renderLog) /\ ~InSeq(skipLog[i], addLog))
  /\ [][Len(skipLog') > Len(skipLog) =>
          /\ npoints'[p] = 0
          /\ exc' = "none"
          /\ pc' = "for_density"
          /\ p' = p
          /\ d' = d + 1
          /\ rotation' = rotation
          /\ pattern_results' = pattern_results]_vars

\* The previous density of the running pattern was skipped and the current
\* one is being rendered.
W_C2 ==
  /\ pc = "while"
  /\ d >= 2
  /\ InSeq(<<p, d - 1>>, skipLog)
  /\ point_count >= 1

\* C3: if generate, render or the driver loop raises after set-up, the
\* records appended so far are in the result file when run_benchmark
\* returns.
C3_PartialResultsFlushed ==
  (pc \in {"returned", "exited"} /\ exc \in {"generate", "render"}
     /\ pattern_results # <<>>)
  => (file.written /\ file.results = pattern_results)

\* C4: a sweep ended by a quit is followed by exactly one save_to_file call,
\* and the saved data holds every record appended before the quit.
C4_QuitStillSaves ==
  /\ quitSeen => saveCalls <= 1
  /\ (quitSeen /\ pc \in AfterSave) =>
       /\ saveCalls = 1
       /\ file.written
       /\ file.results = pattern_results
       /\ TotalRecords(file.results) = Len(addLog)

\* A quit-ended run has finished with at least one record in the file.
W_C4 ==
  /\ quitSeen
  /\ pc = "exited"
  /\ file.written
  /\ TotalRecords(file.results) >= 1

\* C5: the exit status is 0 exactly when the sweep completed or was ended by
\* a quit, and 1 when set-up or the run raised: main exits 0 iff
\* run_benchmark returned True, which returns False iff an exception was
\* caught.
C5_ExitStatus ==
  /\ pc \in {"returned", "exited"} => (ret = "False" <=> exc # "none")
  /\ pc \in {"returned", "exited"} => (ret = "True" <=> exc = "none")
  /\ pc = "exited" =>
       /\ exit_status \in {0, 1}
       /\ exit_status = 0 <=> ret = "True"
       /\ exit_status = 0 <=> (quitSeen \/ p > Len(patterns))
       /\ exit_status # 0 <=> exc \in {"setup", "generate", "render"}

\* A run with a record ended by an exception in generate and exited 1.
W_C5 ==
  /\ pc = "exited"
  /\ exit_status = 1
  /\ exc = "generate"
  /\ addLog # <<>>

\* C6: when graphics set-up fails there is no generate call, no frame, no
\* record, and run_benchmark returns False.
C6_SetupFailure ==
  exc = "setup" =>
    /\ genLog = <<>>
    /\ renderLog = <<>>
    /\ rotation = 0
    /\ addLog = <<>>
    /\ pattern_results = <<>>
    /\ pc \in {"except", "finally", "returned", "exited"}
    /\ pc \in {"returned", "exited"} => ret = "False"

\* run_benchmark has returned after a set-up failure.
W_C6 ==
  /\ exc = "setup"
  /\ pc = "returned"
  /\ ret = "False"

LexLess(a, b) == a[1] < b[1] \/ (a[1] = b[1] /\ a[2] < b[2])

\* The add_result calls made for the patterns of one name, in call order.
AddsOf(name) == SelectSeq(addLog, LAMBDA x : PatternName(patterns[x[1]]) = name)

\* C7: records are appended in (pattern index, density index) order, and the
\* list of each pattern holds its records in the order of the density list.
C7_SweepOrder ==
  /\ \A i, j \in 1..Len(addLog) : i < j => LexLess(addLog[i], addLog[j])
  /\ \A k \in 1..Len(addLog) :
       HasKey(pattern_results, PatternName(patterns[addLog[k][1]]))
  /\ \A i \in 1..Len(pattern_results) :
       LET e == pattern_results[i]
           adds == AddsOf(e.key)
       IN /\ Len(e.results) = Len(adds)
          /\ \A j \in 1..Len(adds) :
               e.results[j].density = densities[adds[j][2]]
  /\ \A i, j \in 1..Len(pattern_results) :
       i < j => LexLess(AddsOf(pattern_results[i].key)[1],
                        AddsOf(pattern_results[j].key)[1])

\* Two patterns have records and one of them has two.
W_C7 ==
  /\ Len(pattern_results) >= 2
  /\ \E i \in 1..Len(pattern_results) : Len(pattern_results[i].results) >= 2

\* C8: the store is append-only: a record once appended keeps its position
\* and its values in every later state.
C8_AppendOnly ==
  [][/\ Len(pattern_results') >= Len(pattern_results)
     /\ \A i \in 1..Len(pattern_results) :
          /\ pattern_results'[i].key = pattern_results[i].key
          /\ Len(pattern_results'[i].results) >= Len(pattern_results[i].results)
          /\ \A j \in 1..Len(pattern_results[i].results) :
               pattern_results'[i].results[j] = pattern_results[i].results[j]]_vars

\* A list with two records has gone through save and summary.
W_C8 ==
  /\ pc = "exited"
  /\ file.written
  /\ summary # <<>>
  /\ \E i \in 1..Len(pattern_results) : Len(pattern_results[i].results) >= 2

\* C9: save_to_file is called at most once, only after the `for pattern`
\* loop has ended (exhausted or left on a quit), and no add_result follows.
C9_SaveOnceAtEnd ==
  /\ [](saveCalls <= 1)
  /\ [][saveCalls' # saveCalls =>
          (quitSeen \/ p > Len(patterns))]_vars
  /\ [][saveCalls >= 1 =>
          (addLog' = addLog /\ pattern_results' = pattern_results)]_vars

\* A completed sweep with records has been saved.
W_C9 ==
  /\ saveCalls = 1
  /\ pc = "exited"
  /\ ~quitSeen
  /\ addLog # <<>>

\* C10: get_summary reports, per pattern with a record, the largest fps and
\* the largest point count of its records, each taken on its own.
C10_IndependentMaxima ==
  (pc \in {"finally", "returned", "exited"} /\ exc = "none") =>
    LET ne == SelectSeq(pattern_results, LAMBDA e : e.results # <<>>) IN
      /\ Len(summary) = Len(ne)
      /\ \A i \in 1..Len(ne) :
           LET rs == ne[i].results IN
             /\ summary[i].pattern = ne[i].key
             /\ \E j \in 1..Len(rs) : summary[i].max_points = rs[j].points
             /\ \A j \in 1..Len(rs) : rs[j].points <= summary[i].max_points
             /\ \E j \in 1..Len(rs) :
                  /\ summary[i].max_fps = FormatFps(rs[j].fps)
                  /\ \A k \in 1..Len(rs) : ~RatLess(rs[j].fps, rs[k].fps)

\* The summary was made of a list whose fastest record is not the one with
\* the most points.
W_C10 ==
  /\ pc = "exited"
  /\ summary # <<>>
  /\ \E i \in 1..Len(pattern_results) :
       LET rs == pattern_results[i].results IN
         \E j, k \in 1..Len(rs) :
           /\ RatLess(rs[k].fps, rs[j].fps)
           /\ rs[j].points < rs[k].points
           /\ FormatFps(rs[k].fps) < FormatFps(rs[j].fps)

(***************************************************************************)
(* Properties of the render path.                                          *)
(***************************************************************************)
\* C11: a frame is drawn on the batched path exactly when the field has more
\* than 50,000 points: 50,000 points take the immediate path and 50,001 the
\* batched one.
C11_RenderPathThreshold ==
  render_path # "none" =>
    /\ render_path = "batched" <=> field_size > 50000
    /\ render_path = "immediate" <=> field_size <= 50000
    /\ field_size = 50000 => render_path = "immediate"
    /\ field_size = 50001 => render_path = "batched"

\* A field of exactly 50,000 points was drawn.
W_C11 == field_size = 50000 /\ render_path = "immediate" /\ frame_count > 0

(***************************************************************************)
(* Properties of the pattern objects.                                      *)
(***************************************************************************)
Particle == "ParticleSystem"

\* Elements i of two lists were appended by the same loop iteration.
SameIds(a, b) ==
  /\ Len(a) = Len(b)
  /\ \A i \in 1..Len(a) : a[i].id = b[i].id

\* C12: after ParticleSystem.generate(density) the field holds exactly
\* int(density * 5000) particles, each with a position, a colour, a velocity
\* and a mass.
C12_ParticleCount ==
  (instance = Particle /\ generate_calls > 0 /\ raised = "none") =>
    /\ Len(self_points) = (last_density * 5000) \div DensityDen
    /\ has_physics
    /\ Len(self_colors) = Len(self_points)
    /\ Len(self_velocities) = Len(self_points)
    /\ Len(self_masses) = Len(self_points)

\* C13: a gravity step on a non-empty particle field keeps the lengths of
\* points, colors, velocities and masses, keeps every mass and every colour,
\* and keeps every position and velocity at its index: only their values
\* change.
C13_StepKeepsParticles ==
  [][(/\ physics_steps' = physics_steps + 1
      /\ Len(self_points) > 0
      /\ has_physics) =>
       /\ raised' = "none"
       /\ Len(self_points') = Len(self_points)
       /\ Len(self_velocities') = Len(self_velocities)
       /\ self_colors' = self_colors
       /\ self_masses' = self_masses
       /\ SameIds(self_points', self_points)
       /\ SameIds(self_velocities', self_velocities)]_vars

\* A gravity step has run on a field of two particles.
W_C13 ==
  /\ instance = Particle
  /\ physics_steps > 0
  /\ Len(self_points) = 2
  /\ self_points[1].writes > 0
  /\ self_velocities[1].pulled_by # {}

\* C14: after generate and any later frames, points and colors have the same
\* length and pair by index, and for the particle field velocities and
\* masses exist and pair with points in the same way.
C14_ListsPaired ==
  (instance \in Classes /\ generate_calls > 0 /\ raised = "none") =>
    /\ SameIds(self_points, self_colors)
    /\ instance = Particle =>
         /\ has_physics
         /\ SameIds(self_points, self_velocities)
         /\ SameIds(self_points, self_masses)

\* C15: the gravity step runs once in every counted frame of a particle
\* field, in no frame of another pattern, and never in generate.
C15_StepPerParticleFrame ==
  [][/\ instance = Particle => physics_steps' = frame_count'
     /\ instance # Particle => physics_steps' = 0
     /\ generate_calls' # generate_calls => physics_steps' = physics_steps]_vars

\* Two frames of a particle field were rendered.
W_C15 ==
  /\ instance = Particle
  /\ Len(self_points) > 0
  /\ frame_count = 2
  /\ physics_steps = 2

\* C16: FibonacciSphere.generate(density) raises nothing and leaves exactly
\* int(density * 10000) points and as many colours, all of them appended by
\* this call: none when the count is 0, and nothing of a previous field.
C16_FibonacciCount ==
  (instance = "FibonacciSphere" /\ generate_calls > 0) =>
    /\ raised = "none"
    /\ Len(self_points) = (last_density * 10000) \div DensityDen
    /\ Len(self_colors) = Len(self_points)
    /\ \A i \in 1..Len(self_points) :
         /\ self_points[i].id = <<generate_calls, i - 1>>
         /\ self_colors[i].id = <<generate_calls, i - 1>>

\* A second generate call left a field of two points.
W_C16 ==
  /\ instance = "FibonacciSphere"
  /\ generate_calls = 2
  /\ last_density = 4
  /\ Len(self_points) = 2

IsPrime(n) == n >= 2 /\ \A q \in 2..(n - 1) : n % q # 0

\* C17: PrimeSpiral.generate(density) leaves one point per prime p with
\* 2 <= p < max_num = int(density * 20000), in increasing order of p; the
\* trial division accepts n exactly when n is prime; max_num = 100 gives 25
\* points and max_num <= 2 gives none, without error.
C17_PrimeSpiralPrimes ==
  (instance = "PrimeSpiral" /\ generate_calls > 0) =>
    LET max_num == (last_density * 20000) \div DensityDen
        below == {n \in 2..(max_num - 1) : IsPrime(n)}
    IN  /\ raised = "none"
        /\ SameIds(self_points, self_colors)
        /\ Len(self_points) = Cardinality(below)
        /\ {self_points[i].id[3] : i \in 1..Len(self_points)} = below
        /\ \A i, j \in 1..Len(self_points) :
             i < j => self_points[i].id[3] < self_points[j].id[3]
        /\ \A n \in 2..(max_num - 1) : TrialDivisionPrime(n) <=> IsPrime(n)
        /\ max_num = 100 => Len(self_points) = 25
        /\ max_num <= 2 => Len(self_points) = 0

\* The field of max_num = 100.
W_C17 ==
  /\ instance = "PrimeSpiral"
  /\ (last_density * 20000) \div DensityDen = 100
  /\ Len(self_points) = 25

\* C18: MandelbrotSphere.generate emits a point for a cell (layer, i, j)
\* exactly when the cell's iteration count is below max_iter, so the field
\* has at most 3 * resolution^2 points and none when resolution or max_iter
\* is 0; the count the driver reads and tests is the length of the field
\* after generate.
C18_MandelbrotEscapes ==
  (instance = "MandelbrotSphere" /\ generate_calls > 0) =>
    LET resolution == (last_density * 100) \div DensityDen
        max_iter == (last_density * 50) \div DensityDen
        cells == (0..2) \X (0..(resolution - 1)) \X (0..(resolution - 1))
        emitted == {Tail(self_points[n].id) : n \in 1..Len(self_points)}
    IN  /\ raised = "none"
        /\ SameIds(self_points, self_colors)
        /\ emitted \subseteq cells
        /\ Cardinality(emitted) = Len(self_points)
        /\ \A cell \in cells :
             cell \in emitted <=>
               CellIterations(cell, resolution, max_iter) < max_iter
        /\ Len(self_points) <= 3 * resolution * resolution
        /\ (resolution = 0 \/ max_iter = 0) => Len(self_points) = 0
        /\ read_count = Len(self_points)
        /\ skipped <=> Len(self_points) = 0

\* A field where some of the 48 cells escaped and some did not.
W_C18 ==
  /\ instance = "MandelbrotSphere"
  /\ last_density = 768
  /\ Len(self_points) > 0
  /\ Len(self_points) < 48
  /\ read_count = Len(self_points)

\* C19: LorenzAttractor.generate raises nothing; every step of every one of
\* the 3 attractors appends one point with one colour if its magnitude is
\* positive and nothing if it is 0; the field has at most 3 * steps points
\* and the points of attractor k precede those of attractor k + 1.
C19_LorenzSteps ==
  (instance = "LorenzAttractor" /\ generate_calls > 0) =>
    LET steps == (last_density * 5000) \div DensityDen
    IN  /\ raised = "none"
        /\ SameIds(self_points, self_colors)
        /\ Len(self_points) <= 3 * steps
        /\ \A a \in 0..2, i \in 0..(steps - 1) :
             Cardinality({n \in 1..Len(self_points) :
                            self_points[n].id = <<generate_calls, a, i>>})
               = IF <<a, i>> \in zero_magnitude THEN 0 ELSE 1
        /\ \A m, n \in 1..Len(self_points) :
             m < n => \/ self_points[m].id[2] < self_points[n].id[2]
                      \/ /\ self_points[m].id[2] = self_points[n].id[2]
                         /\ self_points[m].id[3] < self_points[n].id[3]

\* One of six steps had magnitude 0 and appended nothing.
W_C19 ==
  /\ instance = "LorenzAttractor"
  /\ zero_magnitude # {}
  /\ last_density = 8
  /\ Len(self_points) = 5
  /\ raised = "none"

\* The distance from 1 that the fixed-point arithmetic cannot resolve, for
\* a squared norm: 1e-3.
NormTol == 10 * FixOne

\* C20: every position of a Fibonacci, prime-spiral, Lorenz or particle
\* field has norm 1 (no magnitude being exactly 0).
C20_UnitNorm ==
  (/\ instance \in {"FibonacciSphere", "PrimeSpiral", "LorenzAttractor", Particle}
   /\ zero_magnitude = {}
   /\ raised = "none") =>
    \A i \in 1..Len(self_points) :
      /\ self_points[i].n2 - FixOne * FixOne <= NormTol
      /\ FixOne * FixOne - self_points[i].n2 <= NormTol

\* The places in the frame's calls of the calls named in names.
CallsAt(names) == {i \in 1..Len(frame_ops) : frame_ops[i].op \in names}

\* C21: every rendered frame issues exactly 3 overlay spheres, each after
\* every point submission of the frame and before its single buffer flip,
\* whatever the pattern class, the point count and the render path.
C21_OverlayAfterPointsBeforeFlip ==
  (frame_count > 0 /\ raised = "none") =>
    LET spheres == CallsAt({"gluSphere"})
        submissions == CallsAt({"glDrawArrays", "glVertex3f"})
        flips == CallsAt({"flip"})
    IN  /\ Cardinality(spheres) = 3
        /\ Cardinality(flips) = 1
        /\ submissions # {}
        /\ \A s \in spheres :
             /\ \A q \in submissions : q < s
             /\ \A f \in flips : s < f

W_C21 ==
  /\ instance = "ParticleSystem"
  /\ render_path = "batched"
  /\ frame_count > 0
  /\ Cardinality(CallsAt({"gluSphere"})) = 3
  /\ Cardinality(CallsAt({"glDrawArrays"})) = 3

\* C22: no (pattern, density) pair is generated twice, the frames of a pair
\* are rendered in one stretch that no later frame of the pair follows, only
\* the pair generated last is rendered, and after a skip, a quit or an
\* exception nothing is generated or rendered again for that pair.
C22_NoRetry ==
  /\ [](\A i, j \in 1..Len(genLog) : i < j => LexLess(genLog[i], genLog[j]))
  /\ [](\A i, j \in 1..Len(renderLog) :
          i < j => ~LexLess(renderLog[j], renderLog[i]))
  /\ [][/\ renderLog' # renderLog =>
             /\ genLog # <<>>
             /\ renderLog' = Append(renderLog, genLog[Len(genLog)])
             /\ ~InSeq(genLog[Len(genLog)], skipLog)
             /\ ~InSeq(genLog[Len(genLog)], addLog)
        /\ (quitSeen \/ exc # "none") =>
             (genLog' = genLog /\ renderLog' = renderLog)]_vars

W_C22 ==
  /\ pc = "exited"
  /\ Len(skipLog) >= 1
  /\ Len(genLog) >= 3
  /\ exc = "render"
  /\ renderLog # <<>>

\* C23: the quit signal is looked at only at the head of a loop iteration,
\* and a render call begins only right after a poll that saw no quit; a frame
\* whose render call has begun (and does not raise) is completed and counted
\* in frames and in total_render_time, with no quit observed meanwhile,
\* before control is back at the poll.
C23_NoMidFrameCancel ==
  [][/\ (quitSeen' # quitSeen) => (pc = "while" /\ now < duration)
     /\ (pc' = "render" /\ pc # "render") =>
          (pc = "while" /\ now < duration /\ ~quitSeen')
     /\ (pc = "render" /\ exc' = "none") =>
          /\ pc' = "while"
          /\ frames' = frames + 1
          /\ total_render_time' >= total_render_time
          /\ renderLog' = Append(renderLog, <<p, d>>)
          /\ quitSeen' = quitSeen
     /\ (renderLog' # renderLog) => pc = "render"]_vars

W_C23 ==
  /\ quitSeen
  /\ frames = 1
  /\ total_render_time > 0
  /\ Len(renderLog) >= 1
  /\ renderLog[Len(renderLog)] = <<p, d>>

\* Number of entries of seq equal to x.
Occurrences(x, seq) == Cardinality({i \in 1..Len(seq) : seq[i] = x})

\* The record appended last to the list of the pattern name.
LastRecordOf(store, name) ==
  LET rs == store[KeyIndex(store, name)].results IN rs[Len(rs)]

\* The pair generated i-th was skipped / recorded / aborted by a quit.
PairSkipped(i) == Occurrences(genLog[i], skipLog)
PairRecorded(i) == Occurrences(genLog[i], addLog)
PairQuit(i) == IF quitSeen /\ i = Len(genLog) THEN 1 ELSE 0

\* C24: with the clock advancing and no call raising, every pair ends in
\* exactly one of SKIP, RECORD and quit-abort; no frame is started once the
\* elapsed time has reached the duration; a pair with points > 0 and no quit
\* appends exactly one record, whose fps is frames / elapsed; and the run
\* reaches the save step.
C24_PairsTerminate ==
  /\ [](\A i \in 1..Len(genLog) :
          /\ PairSkipped(i) + PairRecorded(i) + PairQuit(i) <= 1
          /\ (exc = "none" /\ (i < Len(genLog) \/ pc \notin {"while", "render"}))
               => PairSkipped(i) + PairRecorded(i) + PairQuit(i) = 1
          /\ (PairSkipped(i) = 1) => ~InSeq(genLog[i], renderLog))
  /\ [][/\ (pc' = "render" /\ pc # "render") => now < duration
        /\ (pc = "while" /\ ~(now < duration)) =>
             /\ point_count > 0
             /\ addLog' = Append(addLog, <<p, d>>)
             /\ TotalRecords(pattern_results') = TotalRecords(pattern_results) + 1
             /\ LET rec == LastRecordOf(pattern_results',
                                        PatternName(patterns[p]))
                IN  /\ rec.density = densities[d]
                    /\ rec.points = point_count
                    /\ rec.fps = IF now > 0 THEN Rat(frames, now) ELSE <<0, 1>>
        /\ (addLog' # addLog) => (pc = "while" /\ ~(now < duration) /\ ~quitSeen)
       ]_vars
  /\ <>(exc # "none" \/ saveCalls = 1)

W_C24 ==
  /\ saveCalls = 1
  /\ exc = "none"
  /\ ~quitSeen
  /\ Len(skipLog) >= 1
  /\ \E i \in 1..Len(pattern_results) :
       \E j \in 1..Len(pattern_results[i].results) :
         pattern_results[i].results[j].fps = <<2, 3>>

\* C25: a gravity step in which the updated position of a particle has
\* magnitude exactly 0 raises nothing, keeps the particle, and leaves its
\* position and its velocity as they were before the step.
C25_ZeroMagnitudeStepDiscarded ==
  [][(instance = Particle /\ physics_steps' = physics_steps + 1) =>
       /\ raised' = "none"
       /\ SameIds(self_points', self_points)
       /\ \A i \in 1..Len(self_points) :
            <<i - 1>> \in zero_magnitude =>
              /\ self_points'[i] = self_points[i]
              /\ self_velocities'[i] = self_velocities[i]]_vars

\* No two add_result calls for different pattern objects went to the same
\* list of the store.
ListsNotShared ==
  \A i, j \in 1..Len(addLog) :
    addLog[i][1] # addLog[j][1] =>
      PatternName(patterns[addLog[i][1]]) # PatternName(patterns[addLog[j][1]])

\* C26: the patterns of the default sweep have pairwise distinct names, and
\* the records of two different pattern objects never go to the same list of
\* the store.
C26_DistinctNames ==
  patterns = DefaultPatterns =>
    /\ \A i, j \in 1..Len(patterns) :
         i # j => PatternName(patterns[i]) # PatternName(patterns[j])
    /\ ListsNotShared

\* C27: when the render loop of a density with points ends with no frame
\* completed, no division by zero is raised and a record is appended for that
\* density with fps 0 and mean render time 0.
C27_ZeroFramesRecorded ==
  [][(pc = "while" /\ ~(now < duration) /\ frames = 0) =>
       /\ point_count > 0
       /\ exc' = "none"
       /\ addLog' = Append(addLog, <<p, d>>)
       /\ LET rec == LastRecordOf(pattern_results', PatternName(patterns[p]))
          IN  /\ rec.density = densities[d]
              /\ rec.fps = <<0, 1>>
              /\ rec.render_time_ms = <<0, 1>>]_vars

W_C27 ==
  /\ duration = 0
  /\ frames = 0
  /\ renderLog = <<>>
  /\ Len(addLog) >= 2
  /\ \A i \in 1..Len(pattern_results) :
       \A j \in 1..Len(pattern_results[i].results) :
         /\ pattern_results[i].results[j].fps = <<0, 1>>
         /\ pattern_results[i].results[j].render_time_ms = <<0, 1>>

\* C28: a quit observed in the render loop of a pair appends no record for
\* that pair, whatever frames it had rendered; the store holds one record for
\* each add_result call, and add_result is called exactly when a render loop
\* has run to the end of its duration.
C28_QuitDropsPair ==
  /\ [](quitSeen =>
          /\ genLog # <<>>
          /\ ~InSeq(genLog[Len(genLog)], addLog))
  /\ [](TotalRecords(pattern_results) = Len(addLog))
  /\ [][/\ (quitSeen' /\ ~quitSeen) =>
             (pattern_results' = pattern_results /\ addLog' = addLog)
        /\ (addLog' # addLog) <=> (pc = "while" /\ ~(now < duration))
        /\ (addLog' # addLog) => addLog' = Append(addLog, <<p, d>>)]_vars

W_C28 ==
  /\ quitSeen
  /\ pc = "exited"
  /\ frames >= 1
  /\ Len(addLog) >= 1
  /\ InSeq(genLog[Len(genLog)], renderLog)
  /\ file.written
  /\ TotalRecords(file.results) = Len(addLog)

\* The places of the posts in api_log, and of the sleeps.
Posts == {i \in 1..Len(api_log) : api_log[i].ev = "post"}
Sleeps == {i \in 1..Len(api_log) : api_log[i].ev = "sleep"}

\* What the last entry of api_log came to if it is a post, "none" if not.
LastOutcome ==
  IF api_log # <<>> /\ api_log[Len(api_log)].ev = "post"
  THEN api_log[Len(api_log)].outcome ELSE "none"

C30_ParseErrorEndsCall ==
  /\ [](api_method = "call_llm_api" =>
          \A i \in Posts :
            /\ api_log[i].outcome \in {"KeyError", "IndexError"} =>
                 (i = Len(api_log) /\ api_ret = "None" /\ api_pc = "done")
            /\ (/\ api_log[i].outcome \in {"Timeout", "RequestException"}
                /\ api_log[i].attempt < 3
                /\ api_pc = "done") =>
                 \E j \in Posts :
                   j > i /\ api_log[j].attempt = api_log[i].attempt + 1)
  /\ <>(api_pc = "done")

W_C30 ==
  /\ api_method = "call_llm_api"
  /\ api_ret = "None"
  /\ api_log = <<Post(1, "Timeout"), Sleep(1), Post(2, "KeyError")>>

=============================================================================
